---------------------------- MODULE Spec2Model ----------------------------
(***************************************************************************)
(* Model of src/src/ai_diagrammer.py: the pipeline that reads a diagram    *)
(* SVG and an optional layout JSON, assembles a prompt, writes it, asks    *)
(* the image service for a rendering and writes the image.                 *)
(*                                                                         *)
(* Text is a sequence of characters, each a one-character string; a        *)
(* character that has no TLA+ string literal is written by its code point, *)
(* "U+00A0".  The fixed template lines                                     *)
(* of the prompt are kept as single multi-character elements, so a         *)
(* template line can never be mistaken for caller-supplied text.  Bytes    *)
(* are numbers in 0..255.  A JSON text is a sequence of lexical tokens.    *)
(*                                                                         *)
(* The input SVG, the layout file, the prompt file and the image file are  *)
(* taken to be four different paths.  Everything the run touches can fail  *)
(* and is modelled with its failures: the command line, the two input      *)
(* paths, the two output paths, standard output and standard error.  A     *)
(* write to an output file either puts the whole content there or raises   *)
(* and leaves the target as it was.                                        *)
(*                                                                         *)
(* The exit status is the status of the process started at line 166: what  *)
(* main returns, 1 after an uncaught exception, and 120 when the           *)
(* interpreter cannot flush a standard stream as it exits.                 *)
(***************************************************************************)
EXTENDS Integers, Sequences, FiniteSets, TLC

VARIABLES
    pc,             \* position of the run
    argv,           \* the command line: [kind, args]
    stdout,         \* standard output: [kind, lines, text, buffer]
    stderr,         \* standard error: [kind, lines, pending]
    input_svg,      \* the path args.input_svg: [kind, bytes]
    layout_json,    \* the path args.layout_json: [kind, toks]
    out_paths,      \* what args.prompt_out and args.image_out name: [prompt_out, image_out]
    config,         \* args.config
    level,          \* args.level
    block,          \* args.block
    environ,        \* OPENAI_API_KEY in os.environ: [present, value]
    openai_installed, \* whether "from openai import OpenAI" succeeds
    service,        \* what the image service answers: [kind, b64]
    model,          \* args.model
    size,           \* args.size
    max_labels,     \* the max_labels argument of extract_svg_labels
    svg_text,       \* decoded text of the input SVG
    labels,         \* result of extract_svg_labels
    node_count,     \* first component of read_layout_stats
    edge_count,     \* second component of read_layout_stats
    prompt,         \* result of build_prompt
    dirs,           \* parent directories created so far
    prompt_out,     \* the prompt file: [writes, content]
    image_out,      \* the image file: [writes, content]
    requests,       \* requests sent to the image service, in order
    image_bytes,    \* result of generate_image
    layout_reads,   \* number of reads of the layout file
    error,          \* the exception that ended the run, or "none"
    exit_status     \* process exit status, meaningful once pc = "done"

vars == <<pc, argv, stdout, stderr, input_svg, layout_json, out_paths, config,
          level, block, environ, openai_installed, service, model, size, max_labels, svg_text,
          labels, node_count, edge_count, prompt, dirs, prompt_out, image_out,
          requests, image_bytes, layout_reads, error, exit_status>>

-----------------------------------------------------------------------------
(* Bounds of the model *)

\* Most fragments concatenated into one source text.
MaxFrags == 3
\* Largest max_labels argument tried (the smallest is 0).
MaxLabelsArg == 2
\* Most labels handed to build_prompt directly.
MaxPromptLabels == 2
\* Largest node / edge count handed to build_prompt directly.
MaxCount == 2
\* Source lengths tried around the excerpt limit: limit - MaxSlack .. limit + MaxSlack.
MaxSlack == 2

-----------------------------------------------------------------------------
(* Program constants *)

DEFAULT_MAX_LABELS == 80
EXCERPT_LIMIT == 18000
EXIT_OK == 0
EXIT_EXCEPTION == 1
EXIT_INPUT_NOT_FOUND == 2
\* The statuses argparse leaves with from parse_args.
EXIT_HELP == 0
EXIT_USAGE == 2
\* Bytes of the help text printed for --help on a terminal 80 columns wide; it
\* stays under BUFFER_SIZE for every width.
HELP_BYTES == 1023
\* Bytes a block-buffered standard stream holds in its binary buffer (the
\* block size of the device) and bytes its text layer collects before it
\* hands them to the binary buffer.
BUFFER_SIZE == 4096
CHUNK_SIZE == 8192

-----------------------------------------------------------------------------
(* Generic helpers *)

Min(a, b) == IF a <= b THEN a ELSE b

RECURSIVE Concat(_)
\* "".join(parts)
Concat(parts) ==
    IF parts = <<>> THEN <<>> ELSE Head(parts) \o Concat(Tail(parts))

\* All sequences over S of length at most n.
SeqsUpTo(S, n) == UNION {[1..k -> S] : k \in 0..n}

-----------------------------------------------------------------------------
(* Characters and the two regular expressions of extract_svg_labels *)

\* The characters above U+007F that the model's texts may hold.
NonAsciiChars ==
    { "U+0085", "U+00A0", "U+00E9", "U+1680", "U+2000", "U+2001", "U+2002",
      "U+2003", "U+2004", "U+2005", "U+2006", "U+2007", "U+2008", "U+2009",
      "U+200A", "U+2028", "U+2029", "U+202F", "U+205F", "U+3000" }

\* The 29 characters str.strip() removes: those for which str.isspace() holds.
Whitespace ==
    { "\t", "\n", "U+000B", "\f", "\r", "U+001C", "U+001D", "U+001E", "U+001F", " ",
      "U+0085", "U+00A0", "U+1680", "U+2000", "U+2001", "U+2002", "U+2003",
      "U+2004", "U+2005", "U+2006", "U+2007", "U+2008", "U+2009", "U+200A",
      "U+2028", "U+2029", "U+202F", "U+205F", "U+3000" }

\* Case folding done by re.IGNORECASE on the letters of the pattern.
Lower(c) ==
    CASE c = "T" -> "t"
      [] c = "E" -> "e"
      [] c = "X" -> "x"
      [] OTHER -> c

OpenLiteral == <<"<", "t", "e", "x", "t">>
CloseLiteral == <<"<", "/", "t", "e", "x", "t", ">">>

\* The literal lit matches s at position i, ignoring case.
MatchesAt(s, i, lit) ==
    /\ i >= 1
    /\ i + Len(lit) - 1 <= Len(s)
    /\ \A k \in 1..Len(lit) : Lower(s[i + k - 1]) = lit[k]

\* Smallest j >= from with s[j] = c, or 0.
FirstChar(s, c, from) ==
    LET hits == {j \in from..Len(s) : s[j] = c}
    IN  IF hits = {} THEN 0 ELSE CHOOSE j \in hits : \A k \in hits : j <= k

\* Smallest j >= from where </text> matches, or 0.
FirstClose(s, from) ==
    LET hits == {j \in from..Len(s) : MatchesAt(s, j, CloseLiteral)}
    IN  IF hits = {} THEN 0 ELSE CHOOSE j \in hits : \A k \in hits : j <= k

\* <text[^>]*>(.*?)</text> tried at position i: [ok, group, end].
\* [^>]* runs to the first ">", the lazy group to the first </text> after it.
TextMatchAt(s, i) ==
    LET gt == FirstChar(s, ">", i + Len(OpenLiteral))
        cl == IF gt = 0 THEN 0 ELSE FirstClose(s, gt + 1)
    IN  IF MatchesAt(s, i, OpenLiteral) /\ gt # 0 /\ cl # 0
        THEN [ok |-> TRUE, group |-> SubSeq(s, gt + 1, cl - 1),
              end |-> cl + Len(CloseLiteral)]
        ELSE [ok |-> FALSE, group |-> <<>>, end |-> 0]

\* re.finditer: the leftmost match starting at or after pos.
NextTextMatch(s, pos) ==
    LET hits == {i \in pos..Len(s) : TextMatchAt(s, i).ok}
    IN  IF hits = {} THEN [ok |-> FALSE, group |-> <<>>, end |-> 0]
        ELSE TextMatchAt(s, CHOOSE i \in hits : \A k \in hits : i <= k)

RECURSIVE StripTagsFrom(_, _)
\* re.sub(r"<[^>]+>", "", s) from position i on.
StripTagsFrom(s, i) ==
    IF i > Len(s) THEN <<>>
    ELSE LET gt == IF s[i] = "<" THEN FirstChar(s, ">", i + 1) ELSE 0
         IN  IF gt >= i + 2 THEN StripTagsFrom(s, gt + 1)
             ELSE <<s[i]>> \o StripTagsFrom(s, i + 1)

StripTags(s) == StripTagsFrom(s, 1)

\* str.strip()
Strip(s) ==
    LET keep == {i \in 1..Len(s) : s[i] \notin Whitespace}
    IN  IF keep = {} THEN <<>>
        ELSE SubSeq(s, CHOOSE i \in keep : \A k \in keep : i <= k,
                       CHOOSE i \in keep : \A k \in keep : i >= k)

RECURSIVE ExtractFrom(_, _, _, _)
\* The loop of extract_svg_labels, resumed at position pos with acc collected.
ExtractFrom(s, pos, acc, maxl) ==
    LET m == NextTextMatch(s, pos)
        label == Strip(StripTags(m.group))
    IN  IF ~m.ok THEN acc
        ELSE IF label = <<>> THEN ExtractFrom(s, m.end, acc, maxl)
        ELSE IF Len(acc) + 1 >= maxl THEN Append(acc, label)
        ELSE ExtractFrom(s, m.end, Append(acc, label), maxl)

extract_svg_labels(s, maxl) == ExtractFrom(s, 1, <<>>, maxl)

-----------------------------------------------------------------------------
(* Source texts *)

ElemA == <<"<","t","e","x","t",">", "a", "<","/","t","e","x","t",">">>
ElemBlank == <<"<","t","e","x","t",">", " ", "<","/","t","e","x","t",">">>
ElemNested == <<"<","T","e","x","t"," ","x",">", "\n", "<","b",">", "b",
                "<","/","b",">", "\n", "c", " ", "<","/","T","E","X","T",">">>

Fragments ==
    { ElemA, ElemBlank, ElemNested,
      <<"<","t","e","x","t",">">>,
      <<"<","/","t","e","x","t",">">>,
      <<"<","b",">">>,
      <<"<">>, <<">">>, <<"a">>, <<"\f">>, <<"U+00A0">> }

\* Every concatenation of at most n fragments.
SvgTexts(n) == {Concat(fs) : fs \in SeqsUpTo(Fragments, n)}

-----------------------------------------------------------------------------
(* json.loads on a token sequence, and read_layout_stats *)

\* String tokens of a JSON text and the Python string each denotes.
StringToks == {"\"nodes\"", "\"edges\"", "\"x\""}
StringOf(t) ==
    CASE t = "\"nodes\"" -> "nodes"
      [] t = "\"edges\"" -> "edges"
      [] OTHER -> "x"
NumberToks == {"1", "2"}
LiteralToks == {"null", "true"}

\* A decoded JSON value: its Python type, the elements of a list or the
\* values of a dict, and the keys of a dict (in document order).
Scalar(t) == [type |-> t, items |-> <<>>, keys |-> <<>>]
NoValue == Scalar("NoneType")
ParseFail == [ok |-> FALSE, val |-> NoValue, next |-> 0]

Tok(toks, i) == IF i >= 1 /\ i <= Len(toks) THEN toks[i] ELSE "EOF"

RECURSIVE ParseValue(_, _)
RECURSIVE ParseListItems(_, _, _)
RECURSIVE ParseDictItems(_, _, _, _)

\* The elements of a non-empty array, from position i on.
ParseListItems(toks, i, acc) ==
    LET v == ParseValue(toks, i)
    IN  IF ~v.ok THEN ParseFail
        ELSE IF Tok(toks, v.next) = ","
             THEN ParseListItems(toks, v.next + 1, Append(acc, v.val))
        ELSE IF Tok(toks, v.next) = "]"
             THEN [ok |-> TRUE,
                   val |-> [type |-> "list", items |-> Append(acc, v.val), keys |-> <<>>],
                   next |-> v.next + 1]
        ELSE ParseFail

\* The members of a non-empty object, from position i on.
ParseDictItems(toks, i, ks, vs) ==
    IF Tok(toks, i) \notin StringToks \/ Tok(toks, i + 1) # ":" THEN ParseFail
    ELSE LET v == ParseValue(toks, i + 2)
             ks2 == Append(ks, StringOf(toks[i]))
         IN  IF ~v.ok THEN ParseFail
             ELSE IF Tok(toks, v.next) = ","
                  THEN ParseDictItems(toks, v.next + 1, ks2, Append(vs, v.val))
             ELSE IF Tok(toks, v.next) = "}"
                  THEN [ok |-> TRUE,
                        val |-> [type |-> "dict", items |-> Append(vs, v.val), keys |-> ks2],
                        next |-> v.next + 1]
             ELSE ParseFail

\* One JSON value starting at position i: [ok, val, next].
ParseValue(toks, i) ==
    LET t == Tok(toks, i)
    IN  CASE t = "[" ->
               IF Tok(toks, i + 1) = "]"
               THEN [ok |-> TRUE, val |-> Scalar("list"), next |-> i + 2]
               ELSE ParseListItems(toks, i + 1, <<>>)
          [] t = "{" ->
               IF Tok(toks, i + 1) = "}"
               THEN [ok |-> TRUE, val |-> Scalar("dict"), next |-> i + 2]
               ELSE ParseDictItems(toks, i + 1, <<>>, <<>>)
          [] t \in StringToks -> [ok |-> TRUE, val |-> Scalar("str"), next |-> i + 1]
          [] t \in NumberToks -> [ok |-> TRUE, val |-> Scalar("int"), next |-> i + 1]
          [] t = "null" -> [ok |-> TRUE, val |-> Scalar("NoneType"), next |-> i + 1]
          [] t = "true" -> [ok |-> TRUE, val |-> Scalar("bool"), next |-> i + 1]
          [] OTHER -> ParseFail

\* json.loads: one value and nothing after it, else JSONDecodeError.
json_loads(toks) ==
    LET v == ParseValue(toks, 1)
    IN  IF v.ok /\ v.next = Len(toks) + 1
        THEN [ok |-> TRUE, val |-> v.val]
        ELSE [ok |-> FALSE, val |-> NoValue]

\* dict.get(key, []): the value of the last member named key, else an empty list.
DictGet(payload, key) ==
    LET hits == {i \in 1..Len(payload.keys) : payload.keys[i] = key}
    IN  IF hits = {} THEN Scalar("list")
        ELSE payload.items[CHOOSE i \in hits : \A k \in hits : i >= k]

\* len(v) if isinstance(v, list) else 0
ListLen(v) == IF v.type = "list" THEN Len(v.items) ELSE 0

Counts(n, e) == [raised |-> "none", node_count |-> n, edge_count |-> e]

\* layout_path.is_file() at line 31 raises: stat fails with an error other
\* than the four pathlib ignores, as for a name longer than the file system allows.
ProbeRaises(layout) == layout.kind = "toolong"

\* layout_path.is_file() where it returns: a file, readable or not.
IsFile(layout) == layout.kind \in {"unreadable", "file"}

\* read_layout_stats(layout_path): the pair of counts, or the exception raised.
\* Line 31 stands outside the try of lines 33-36.
read_layout_stats(layout) ==
    IF layout.kind = "none" THEN Counts(0, 0)
    ELSE IF ProbeRaises(layout)
         THEN [raised |-> "OSError", node_count |-> 0, edge_count |-> 0]
    ELSE IF ~IsFile(layout) THEN Counts(0, 0)
    ELSE IF layout.kind = "unreadable" THEN Counts(0, 0)
    ELSE LET parsed == json_loads(layout.toks)
         IN  IF ~parsed.ok THEN Counts(0, 0)
             ELSE IF parsed.val.type # "dict"
                  THEN [raised |-> "AttributeError", node_count |-> 0, edge_count |-> 0]
             ELSE Counts(ListLen(DictGet(parsed.val, "nodes")),
                         ListLen(DictGet(parsed.val, "edges")))

\* Whether read_layout_stats reads the file's content (line 34).
ReadsLayout(layout) == IsFile(layout)

LayoutTexts ==
    { <<>>,
      <<"{", "}">>,
      <<"[", "1", ",", "2", "]">>,
      <<"null">>,
      <<"1">>,
      <<"\"nodes\"">>,
      <<"{", "\"nodes\"", ":", "[", "1", ",", "2", "]", ",", "\"edges\"", ":", "[", "]", "}">>,
      <<"{", "\"nodes\"", ":", "[", "1", ",", "2", ",", "1", "]", ",",
             "\"edges\"", ":", "[", "1", ",", "2", "]", "}">>,
      <<"{", "\"edges\"", ":", "[", "[", "1", "]", ",", "{", "}", "]", "}">>,
      <<"{", "\"nodes\"", ":", "{", "\"x\"", ":", "1", "}", ",", "\"edges\"", ":", "\"x\"", "}">>,
      <<"{", "\"nodes\"", ":", "null", ",", "\"x\"", ":", "[", "1", "]", "}">>,
      <<"{", "\"nodes\"", ":", "[", "1", "]", ",", "\"nodes\"", ":", "[", "1", ",", "2", "]", "}">>,
      <<"{", "\"nodes\"", ":", "[", "1", ",", "2">>,
      <<"{", "\"nodes\"", ":", "[", "1", ",", "]", "}">>,
      <<"{", "1", ":", "2", "}">>,
      <<"{", "\"nodes\"", ":", "[", "]", "}", "1">>,
      <<"{", "\"nodes\"", "[", "]", "}">> }

\* What --layout-json names: nothing ("none": the option is not given), no
\* file, a symbolic link to itself, a name too long for the file system, a
\* file that cannot be read, a file with its text.
LayoutInputs ==
    { [kind |-> k, toks |-> <<>>] :
         k \in {"none", "missing", "loop", "toolong", "unreadable"} }
    \cup { [kind |-> "file", toks |-> t] : t \in LayoutTexts }

-----------------------------------------------------------------------------
(* build_prompt *)

DigitChars == <<"0", "1", "2", "3", "4", "5", "6", "7", "8", "9">>

RECURSIVE IntToStr(_)
\* str(n) for n >= 0, as the f-strings format the counts.
IntToStr(n) ==
    IF n < 10 THEN <<DigitChars[n + 1]>>
    ELSE IntToStr(n \div 10) \o <<DigitChars[(n % 10) + 1]>>

RECURSIVE Join(_, _)
\* sep.join(lines)
Join(lines, sep) ==
    IF lines = <<>> THEN <<>>
    ELSE IF Len(lines) = 1 THEN lines[1]
    ELSE lines[1] \o <<sep>> \o Join(Tail(lines), sep)

\* The lines appended at lines 68-72.
PromptHead ==
    << <<"Create a polished hardware architecture block diagram image.">>,
       <<"Use the supplied SVG as structural ground truth.">>,
       <<"Preserve block names and connectivity intent.">>,
       <<>>,
       <<"Context:">> >>

\* Mutant: the count lines are emitted for counts >= 0 instead of > 0.
ContextBodyNonNegative(labs, nc, ec, cfg, lvl, blk) ==
    (IF cfg # <<>> THEN << <<"- CONFIG: ">> \o cfg >> ELSE <<>>)
    \o (IF lvl # <<>> THEN << <<"- LEVEL: ">> \o lvl >> ELSE <<>>)
    \o (IF blk # <<>> THEN << <<"- BLOCK: ">> \o blk >> ELSE <<>>)
    \o (IF nc >= 0
        THEN << <<"- Approximate block count from layout JSON: ">> \o IntToStr(nc) >>
        ELSE <<>>)
    \o (IF ec >= 0
        THEN << <<"- Approximate edge count from layout JSON: ">> \o IntToStr(ec) >>
        ELSE <<>>)
    \o (IF labs # <<>>
        THEN << <<"- Labels discovered in source SVG:">> >>
             \o [i \in 1..Len(labs) |-> <<"  - ">> \o labs[i]]
        ELSE <<>>)

\* The lines appended at lines 73-86.
ContextBody(labs, nc, ec, cfg, lvl, blk) ==
    (IF cfg # <<>> THEN << <<"- CONFIG: ">> \o cfg >> ELSE <<>>)
    \o (IF lvl # <<>> THEN << <<"- LEVEL: ">> \o lvl >> ELSE <<>>)
    \o (IF blk # <<>> THEN << <<"- BLOCK: ">> \o blk >> ELSE <<>>)
    \o (IF nc > 0
        THEN << <<"- Approximate block count from layout JSON: ">> \o IntToStr(nc) >>
        ELSE <<>>)
    \o (IF ec > 0
        THEN << <<"- Approximate edge count from layout JSON: ">> \o IntToStr(ec) >>
        ELSE <<>>)
    \o (IF labs # <<>>
        THEN << <<"- Labels discovered in source SVG:">> >>
             \o [i \in 1..Len(labs) |-> <<"  - ">> \o labs[i]]
        ELSE <<>>)

\* The lines appended at lines 87-103.
PromptStyle ==
    << <<>>,
       <<"Style constraints:">>,
       <<"- clean professional engineering style">>,
       <<"- white background">>,
       <<"- crisp readable labels">>,
       <<"- clear directional arrows">>,
       <<"- balanced spacing">>,
       <<"- no cartoon style">>,
       <<"- no code snippets">>,
       <<"- no electrical schematic symbols">>,
       <<>>,
       <<"Output requirements:">>,
       <<"- Keep exact visible module names where possible.">>,
       <<"- Preserve high-level topology from the source SVG.">>,
       <<"- Improve visual clarity and slide-readability.">>,
       <<>>,
       <<"Source SVG (for structure reference):">> >>

\* Mutant: the slice keeps one character too many.
ExcerptOffByOne(text) == SubSeq(text, 1, Min(Len(text), EXCERPT_LIMIT + 1))

\* svg_text[:18000]
Excerpt(text) == SubSeq(text, 1, Min(Len(text), EXCERPT_LIMIT))

build_prompt(text, labs, nc, ec, cfg, lvl, blk) ==
    Join(PromptHead \o ContextBody(labs, nc, ec, cfg, lvl, blk)
            \o PromptStyle \o <<Excerpt(text)>>, "\n")

-----------------------------------------------------------------------------
(* base64.b64decode and generate_image *)

B64Chars ==
    << "A", "B", "C", "D", "E", "F", "G", "H", "I", "J", "K", "L", "M", "N", "O", "P",
       "Q", "R", "S", "T", "U", "V", "W", "X", "Y", "Z", "a", "b", "c", "d", "e", "f",
       "g", "h", "i", "j", "k", "l", "m", "n", "o", "p", "q", "r", "s", "t", "u", "v",
       "w", "x", "y", "z", "0", "1", "2", "3", "4", "5", "6", "7", "8", "9", "+", "/" >>

\* table_a2b_base64: the 6-bit value of c, or 64 for a character outside the alphabet.
B64Value(c) ==
    LET hits == {k \in 1..64 : B64Chars[k] = c}
    IN  IF hits = {} THEN 64 ELSE (CHOOSE k \in hits : TRUE) - 1

\* What b64decode gives: the exception raised ("none" when it returns) and the bytes.
B64Result(exc, bytes) == [ok |-> exc = "none", raised |-> exc, bytes |-> bytes]

RECURSIVE A2B(_, _, _, _, _, _)
\* binascii.a2b_base64 in its default, non-strict mode, from position i on:
\* quad is the position in the current group of four, left the bits carried over,
\* pads the "=" seen since the last data character, out the bytes so far.
A2B(s, i, quad, left, pads, out) ==
    IF i > Len(s)
    THEN IF quad = 0 THEN B64Result("none", out) ELSE B64Result("binascii.Error", <<>>)
    ELSE IF s[i] = "="
    THEN IF quad >= 2 /\ quad + pads + 1 >= 4
         THEN B64Result("none", out)
         ELSE A2B(s, i + 1, quad, left, IF quad >= 2 THEN pads + 1 ELSE pads, out)
    ELSE LET v == B64Value(s[i])
         IN  IF v >= 64 THEN A2B(s, i + 1, quad, left, pads, out)
             ELSE CASE quad = 0 -> A2B(s, i + 1, 1, v, 0, out)
                    [] quad = 1 ->
                         A2B(s, i + 1, 2, v % 16, 0,
                             Append(out, (left * 4 + v \div 16) % 256))
                    [] quad = 2 ->
                         A2B(s, i + 1, 3, v % 4, 0,
                             Append(out, (left * 16 + v \div 4) % 256))
                    [] OTHER ->
                         A2B(s, i + 1, 0, 0, 0,
                             Append(out, (left * 64 + v) % 256))

\* base64.b64decode(s) of a str: s is first encoded as ASCII, which raises
\* ValueError when it holds a character above U+007F.
b64decode(s) ==
    IF \E i \in 1..Len(s) : s[i] \in NonAsciiChars
    THEN B64Result("ValueError", <<>>)
    ELSE A2B(s, 1, 0, 0, 0, <<>>)

DEFAULT_MODEL == "gpt-image-1"
DEFAULT_SIZE == "1536x1024"

MissingPackageError == "RuntimeError: Missing Python package 'openai'."
KeyNotSetError == "RuntimeError: OPENAI_API_KEY is not set."

\* not os.environ.get("OPENAI_API_KEY"): unset, or set to the empty string.
KeyMissing(env) == ~env.present \/ env.value = <<>>

GenResult(exc, sent, bytes) == [raised |-> exc, sent |-> sent, bytes |-> bytes]

\* Mutant: the key is looked up only after the request has been sent.
generate_image_key_after_call(p, mdl, sz, installed, env, svc) ==
    LET req == [model |-> mdl, prompt |-> p, size |-> sz]
        dec == b64decode(svc.b64)
    IN  IF ~installed THEN GenResult(MissingPackageError, <<>>, <<>>)
        ELSE IF svc.kind = "raise" THEN GenResult("ServiceError", <<req>>, <<>>)
        ELSE IF KeyMissing(env) THEN GenResult(KeyNotSetError, <<req>>, <<>>)
        ELSE IF svc.kind = "nodata" THEN GenResult("IndexError", <<req>>, <<>>)
        ELSE IF svc.kind = "null" THEN GenResult("TypeError", <<req>>, <<>>)
        ELSE IF ~dec.ok THEN GenResult(dec.raised, <<req>>, <<>>)
        ELSE GenResult("none", <<req>>, dec.bytes)

\* Mutant: a failed call is tried once more before the error is raised.
generate_image_retry(p, mdl, sz, installed, env, svc) ==
    LET req == [model |-> mdl, prompt |-> p, size |-> sz]
        dec == b64decode(svc.b64)
    IN  IF ~installed THEN GenResult(MissingPackageError, <<>>, <<>>)
        ELSE IF KeyMissing(env) THEN GenResult(KeyNotSetError, <<>>, <<>>)
        ELSE IF svc.kind = "raise" THEN GenResult("ServiceError", <<req, req>>, <<>>)
        ELSE IF svc.kind = "nodata" THEN GenResult("IndexError", <<req>>, <<>>)
        ELSE IF svc.kind = "null" THEN GenResult("TypeError", <<req>>, <<>>)
        ELSE IF ~dec.ok THEN GenResult(dec.raised, <<req>>, <<>>)
        ELSE GenResult("none", <<req>>, dec.bytes)

\* generate_image(prompt, model, size) with the package installed or not, the
\* environment env and the service answering svc: the exception raised or the
\* bytes returned, and the requests sent on the way.
generate_image(p, mdl, sz, installed, env, svc) ==
    LET req == [model |-> mdl, prompt |-> p, size |-> sz]
        dec == b64decode(svc.b64)
    IN  IF ~installed THEN GenResult(MissingPackageError, <<>>, <<>>)
        ELSE IF KeyMissing(env) THEN GenResult(KeyNotSetError, <<>>, <<>>)
        ELSE IF svc.kind = "raise" THEN GenResult("ServiceError", <<req>>, <<>>)
        ELSE IF svc.kind = "nodata" THEN GenResult("IndexError", <<req>>, <<>>)
        ELSE IF svc.kind = "null" THEN GenResult("TypeError", <<req>>, <<>>)
        ELSE IF ~dec.ok THEN GenResult(dec.raised, <<req>>, <<>>)
        ELSE GenResult("none", <<req>>, dec.bytes)

Payloads ==
    { <<"Q", "U", "J", "D">>,
      <<"Q", "Q", "=", "=">>,
      <<"Q", "U", "\n", "I", "=">>,
      <<"Q", "U", "J">>,
      <<"Q", "Q", "=">>,
      <<"Q", "U", "J", "D", "U+00E9">>,
      <<>> }

ServiceAnswers ==
    { [kind |-> k, b64 |-> <<>>] : k \in {"raise", "nodata", "null"} }
    \cup { [kind |-> "payload", b64 |-> b] : b \in Payloads }

Environments ==
    { [present |-> FALSE, value |-> <<>>],
      [present |-> TRUE, value |-> <<>>],
      [present |-> TRUE, value |-> <<"s", "k">>] }

-----------------------------------------------------------------------------
(* The run of main() *)

\* A byte that the locale's decoder rejects; read_text(errors="ignore") drops it.
InvalidByte == "\\xff"

RECURSIVE UniversalNewlines(_)
\* Text mode with newline=None: every CR LF and every lone CR becomes LF.
UniversalNewlines(t) ==
    IF t = <<>> THEN <<>>
    ELSE IF Head(t) = "\r"
         THEN <<"\n">> \o UniversalNewlines(
                  IF Len(t) >= 2 /\ t[2] = "\n" THEN SubSeq(t, 3, Len(t)) ELSE Tail(t))
    ELSE <<Head(t)>> \o UniversalNewlines(Tail(t))

\* Path.read_text(errors="ignore") on the bytes of the input SVG: the bytes
\* the decoder rejects are dropped, then the line ends are translated.
Decode(bytes) == UniversalNewlines(SelectSeq(bytes, LAMBDA b : b # InvalidByte))

\* What --input-svg names: no file, a symbolic link to itself, a name too
\* long for the file system, a file that cannot be read, a file with its bytes.
SvgFiles ==
    { [kind |-> k, bytes |-> <<>>] :
         k \in {"missing", "loop", "toolong", "unreadable"} }
    \cup { [kind |-> "file", bytes |-> b] :
             b \in { <<>>, ElemA, ElemA \o ElemBlank \o ElemNested,
                     <<"<", "t", InvalidByte, "e", "x", "t", ">", "a", InvalidByte>>
                        \o CloseLiteral,
                     <<"<", "t", "e", "x", "t", ">", "a", "\r", InvalidByte, "\n",
                       "b", "\r", "c", "U+00A0">> \o CloseLiteral } }

\* Path.resolve() raises RuntimeError("Symlink loop") on a link to itself.
ResolveRaises(path) == path.kind = "loop"

Configs == { <<>>, <<"c", "f", "g">> }
Levels == { <<>>, <<"L", "1">> }
Blocks == { <<>>, <<"b", "l", "k">> }

\* The optional arguments left at their defaults.
DefaultArguments ==
    [config |-> <<>>, level |-> <<>>, block |-> <<>>,
     model |-> DEFAULT_MODEL, size |-> DEFAULT_SIZE]

\* What parse_args returns: config, level, block, model, size.
Arguments ==
    { DefaultArguments,
      [config |-> <<"c", "f", "g">>, level |-> <<"L", "1">>, block |-> <<>>,
       model |-> DEFAULT_MODEL, size |-> DEFAULT_SIZE],
      [config |-> <<"c", "f", "g">>, level |-> <<"L", "1">>, block |-> <<"b", "l", "k">>,
       model |-> "m", size |-> "s"],
      [config |-> <<>>, level |-> <<>>, block |-> <<"b", "l", "k">>,
       model |-> DEFAULT_MODEL, size |-> "s"] }

\* Bytes of the resolved paths, as the report prints them.
PathBytes(i, l, p, m) ==
    [input_svg |-> i, layout_json |-> l, prompt_out |-> p, image_out |-> m]

ShortPaths == PathBytes(40, 40, 40, 40)

\* Path lengths that make the report on a block-buffered full standard output
\* end in each of its ways.
LongPaths ==
    { PathBytes(4000, 40, 40, 40),
      PathBytes(4090, 40, 4090, 40),
      PathBytes(40, 40, 4050, 4090),
      PathBytes(4073, 40, 4095, 40) }

\* Standard error.  "ok" takes what is written.  "full_unbuffered" refuses
\* every write with OSError and keeps nothing.  "full_line_buffered" refuses
\* the write with OSError at the end of the line and keeps text pending.
Stream(k) == [kind |-> k, lines |-> <<>>, pending |-> FALSE]

\* print(..., file=sys.stderr) raises OSError.
WriteRaises(stream) == stream.kind \in {"full_unbuffered", "full_line_buffered"}

\* Standard error after an attempt to write the lines ls to it.
Put(stream, ls) ==
    IF stream.kind = "ok" THEN [stream EXCEPT !.lines = @ \o ls]
    ELSE IF stream.kind = "full_unbuffered" THEN stream
    ELSE [stream EXCEPT !.pending = TRUE]

\* Standard output.  "ok" takes what is written.  "full_unbuffered" refuses
\* every write with OSError.  "full_buffered" is block-buffered on a device
\* that takes no byte: text counts the bytes waiting in the text layer and
\* buffer the bytes waiting in the binary buffer.
StdOut(k) == [kind |-> k, lines |-> <<>>, text |-> 0, buffer |-> 0]

\* The binary buffer is handed n bytes while it holds buffer bytes: they are
\* kept when they fit; otherwise the device is written to, which fails, and
\* the n bytes are dropped.
BufferWrite(buffer, n) ==
    IF n <= BUFFER_SIZE - buffer
    THEN [ok |-> TRUE, buffer |-> buffer + n]
    ELSE [ok |-> FALSE, buffer |-> buffer]

\* write() of n bytes on the text layer of a block-buffered full stream s: the
\* waiting bytes go to the binary buffer first when the new ones would take
\* them over CHUNK_SIZE, and all go there once CHUNK_SIZE is reached.
TextWrite(s, n) ==
    LET early == s.text > 0 /\ s.text + n > CHUNK_SIZE
        b1 == IF early THEN BufferWrite(s.buffer, s.text)
              ELSE [ok |-> TRUE, buffer |-> s.buffer]
        t == (IF early THEN 0 ELSE s.text) + n
        b2 == BufferWrite(b1.buffer, t)
    IN  IF ~b1.ok THEN [ok |-> FALSE, s |-> [s EXCEPT !.text = 0]]
        ELSE IF t >= CHUNK_SIZE
        THEN [ok |-> b2.ok, s |-> [s EXCEPT !.text = 0, !.buffer = b2.buffer]]
        ELSE [ok |-> TRUE, s |-> [s EXCEPT !.text = t, !.buffer = b1.buffer]]

\* One write() of n bytes on standard output: whether it returns, and the stream.
Write(s, n) ==
    IF s.kind = "ok" THEN [ok |-> TRUE, s |-> s]
    ELSE IF s.kind = "full_unbuffered" THEN [ok |-> FALSE, s |-> s]
    ELSE TextWrite(s, n)

\* print(line): the text is written, then the line end.
PrintLine(s, line) ==
    LET w1 == Write(s, line.bytes - 1)
        w2 == Write(w1.s, 1)
    IN  IF ~w1.ok THEN w1
        ELSE IF ~w2.ok THEN w2
        ELSE [ok |-> TRUE,
              s |-> IF s.kind = "ok" THEN [w2.s EXCEPT !.lines = @ \o <<line.tag>>]
                    ELSE w2.s]

RECURSIVE PrintLines(_, _)
\* The prints of the lines ls in order, up to the first that raises.
PrintLines(s, ls) ==
    IF ls = <<>> THEN [ok |-> TRUE, s |-> s]
    ELSE LET r == PrintLine(s, Head(ls))
         IN  IF r.ok THEN PrintLines(r.s, Tail(ls)) ELSE r

\* As the process leaves, the interpreter flushes standard output twice and
\* reports the failure of the second flush only.  The first flush moves the
\* waiting text to the binary buffer if it fits there and drops it if not;
\* the second fails when the binary buffer holds bytes.
FlushFails(out) ==
    \/ out.buffer > 0
    \/ out.text > 0 /\ out.text <= BUFFER_SIZE - out.buffer

\* The status of the process that leaves with code: 120 replaces it when a
\* standard stream holds text the interpreter cannot flush at exit.
ExitStatus(code, out, err) == IF FlushFails(out) \/ err.pending THEN 120 ELSE code

\* Standard error once the process has left: the interpreter reports on it
\* that it could not flush standard output.
AtExit(out, err) == IF FlushFails(out) THEN Put(err, <<"Exception ignored">>) ELSE err

\* The states of standard output and standard error a run is started with.
Streams ==
    { [out |-> "ok", err |-> "ok"],
      [out |-> "full_unbuffered", err |-> "ok"],
      [out |-> "full_buffered", err |-> "ok"],
      [out |-> "ok", err |-> "full_unbuffered"],
      [out |-> "ok", err |-> "full_line_buffered"] }

\* What an output path names: "ok" can be made and written; "loop" is a
\* symbolic link to itself; "parent_is_file" has a regular file where its
\* parent directory should be; "is_dir" is an existing directory; "full" is a
\* device that takes no byte.
BadOutputs == {"loop", "parent_is_file", "is_dir", "full"}

\* The pairs of output paths tried: at most one of the two is not "ok".
OutputPaths ==
    { [prompt_out |-> "ok", image_out |-> "ok"] }
    \cup { [prompt_out |-> k, image_out |-> "ok"] : k \in BadOutputs }
    \cup { [prompt_out |-> "ok", image_out |-> k] : k \in BadOutputs }

\* Path.resolve() at lines 149-150 raises RuntimeError("Symlink loop").
OutputResolveRaises(kind) == kind = "loop"

\* parent.mkdir(parents=True, exist_ok=True) at lines 151-152 raises FileExistsError.
MkdirRaises(kind) == kind = "parent_is_file"

\* write_text / write_bytes at lines 153 and 156 raises OSError: always on a
\* directory, and on a full device when there is something to write.
FileWriteRaises(kind, content) ==
    \/ kind = "is_dir"
    \/ kind = "full" /\ content # <<>>

\* Command lines: "run" has the three required options and is parsed into
\* args; "help" has --help; "usage_error" lacks --prompt-out.  With each go
\* the standard streams the process is started with, the output paths the
\* command line names and the lengths of the resolved paths.
Invocations ==
    { [kind |-> "run", args |-> a, out |-> "ok", err |-> "ok",
       paths |-> ShortPaths, outputs |-> [prompt_out |-> "ok", image_out |-> "ok"]] :
         a \in Arguments }
    \cup { [kind |-> k, args |-> DefaultArguments, out |-> s.out, err |-> s.err,
            paths |-> ShortPaths,
            outputs |-> [prompt_out |-> "ok", image_out |-> "ok"]] :
             k \in {"run", "help", "usage_error"}, s \in Streams }
    \cup { [kind |-> "run", args |-> DefaultArguments, out |-> "full_buffered",
            err |-> "ok", paths |-> l,
            outputs |-> [prompt_out |-> "ok", image_out |-> "ok"]] : l \in LongPaths }
    \cup { [kind |-> "run", args |-> DefaultArguments, out |-> "ok", err |-> "ok",
            paths |-> ShortPaths, outputs |-> o] : o \in OutputPaths }

NoFileWritten == [writes |-> 0, content |-> <<>>]

\* The state in which nothing has been computed or written yet.
Fresh ==
    /\ labels = <<>>
    /\ node_count = 0
    /\ edge_count = 0
    /\ prompt = <<>>
    /\ dirs = {}
    /\ prompt_out = NoFileWritten
    /\ image_out = NoFileWritten
    /\ requests = <<>>
    /\ image_bytes = <<>>
    /\ layout_reads = 0
    /\ error = "none"
    /\ exit_status = -1

\* The process is started: the command line, the streams and the world the
\* run will meet; the optional arguments hold their defaults until parsed.
Init ==
    /\ pc = "parse_args"
    /\ \E i \in Invocations :
          /\ argv = [kind |-> i.kind, args |-> i.args, paths |-> i.paths]
          /\ stdout = StdOut(i.out)
          /\ stderr = Stream(i.err)
          /\ out_paths = i.outputs
    /\ input_svg \in SvgFiles
    /\ layout_json \in LayoutInputs
    /\ config = DefaultArguments.config
    /\ level = DefaultArguments.level
    /\ block = DefaultArguments.block
    /\ model = DefaultArguments.model
    /\ size = DefaultArguments.size
    /\ environ \in Environments
    /\ openai_installed \in BOOLEAN
    /\ service \in ServiceAnswers
    /\ max_labels = DEFAULT_MAX_LABELS
    /\ svg_text = <<>>
    /\ Fresh

\* The run ends with an uncaught exception while standard output is in the
\* state out: the traceback goes to standard error and the process leaves
\* with status 1.
Raise(exc, out) ==
    /\ error' = exc
    /\ stderr' = AtExit(out, Put(stderr, <<"Traceback">>))
    /\ exit_status' = ExitStatus(EXIT_EXCEPTION, out, Put(stderr, <<"Traceback">>))
    /\ pc' = "done"

\* Line 127 with lines 14-27.  --help writes the help text to standard output
\* in one piece and leaves with status 0; a usage error writes the usage to
\* standard error and leaves with status 2; argparse ignores an OSError of
\* either write.
ParseArgs ==
    /\ pc = "parse_args"
    /\ IF argv.kind = "help"
       THEN LET w == Write(stdout, HELP_BYTES)
                out == IF stdout.kind = "ok"
                       THEN [w.s EXCEPT !.lines = @ \o <<"usage and help">>]
                       ELSE w.s
            IN  /\ stdout' = out
                /\ stderr' = AtExit(out, stderr)
                /\ exit_status' = ExitStatus(EXIT_HELP, out, stderr)
                /\ pc' = "done"
                /\ UNCHANGED <<config, level, block, model, size>>
       ELSE IF argv.kind = "usage_error"
       THEN /\ stderr' = AtExit(stdout, Put(stderr, <<"usage and error">>))
            /\ exit_status' = ExitStatus(EXIT_USAGE, stdout,
                                         Put(stderr, <<"usage and error">>))
            /\ pc' = "done"
            /\ UNCHANGED <<stdout, config, level, block, model, size>>
       ELSE /\ config' = argv.args.config
            /\ level' = argv.args.level
            /\ block' = argv.args.block
            /\ model' = argv.args.model
            /\ size' = argv.args.size
            /\ pc' = "start"
            /\ UNCHANGED <<stdout, stderr, exit_status>>
    /\ UNCHANGED <<argv, input_svg, layout_json, out_paths, environ,
                   openai_installed, service, max_labels, svg_text, labels,
                   node_count, edge_count, prompt, dirs, prompt_out, image_out,
                   requests, image_bytes, layout_reads, error>>

\* Lines 129-132.
CheckInput ==
    /\ pc = "start"
    /\ IF ResolveRaises(input_svg)
       THEN Raise("RuntimeError", stdout)
       ELSE IF ProbeRaises(input_svg)
       THEN Raise("OSError", stdout)
       ELSE IF input_svg.kind = "missing"
       THEN IF WriteRaises(stderr)
            THEN Raise("OSError", stdout)
            ELSE /\ stderr' = AtExit(stdout,
                                      Put(stderr, <<"ERROR: input SVG not found">>))
                 /\ exit_status' =
                       ExitStatus(EXIT_INPUT_NOT_FOUND, stdout,
                                  Put(stderr, <<"ERROR: input SVG not found">>))
                 /\ pc' = "done"
                 /\ UNCHANGED error
       ELSE /\ pc' = "read_svg"
            /\ UNCHANGED <<stderr, error, exit_status>>
    /\ UNCHANGED <<argv, stdout, input_svg, layout_json, out_paths, config, level,
                   block, environ, openai_installed, service, model, size,
                   max_labels, svg_text, labels, node_count, edge_count, prompt,
                   dirs, prompt_out, image_out, requests, image_bytes, layout_reads>>

\* Lines 134-135.
ReadSvg ==
    /\ pc = "read_svg"
    /\ IF ResolveRaises(layout_json)
       THEN /\ Raise("RuntimeError", stdout)
            /\ UNCHANGED svg_text
       ELSE IF input_svg.kind = "unreadable"
       THEN /\ Raise("OSError", stdout)
            /\ UNCHANGED svg_text
       ELSE /\ svg_text' = Decode(input_svg.bytes)
            /\ pc' = "extract"
            /\ UNCHANGED <<stderr, error, exit_status>>
    /\ UNCHANGED <<argv, stdout, input_svg, layout_json, out_paths, config, level,
                   block, environ, openai_installed, service, model, size,
                   max_labels, labels, node_count, edge_count, prompt, dirs,
                   prompt_out, image_out, requests, image_bytes, layout_reads>>

\* Line 136.
ExtractLabels ==
    /\ pc = "extract"
    /\ labels' = extract_svg_labels(svg_text, max_labels)
    /\ pc' = "layout"
    /\ UNCHANGED <<argv, stdout, stderr, input_svg, layout_json, out_paths, config,
                   level, block, environ, openai_installed, service, model, size,
                   max_labels, svg_text, node_count, edge_count, prompt, dirs,
                   prompt_out, image_out, requests, image_bytes, layout_reads, error,
                   exit_status>>

\* Line 137.
ReadLayout ==
    /\ pc = "layout"
    /\ LET r == read_layout_stats(layout_json)
       IN  /\ layout_reads' = layout_reads + (IF ReadsLayout(layout_json) THEN 1 ELSE 0)
           /\ IF r.raised # "none"
              THEN /\ Raise(r.raised, stdout)
                   /\ UNCHANGED <<node_count, edge_count>>
              ELSE /\ node_count' = r.node_count
                   /\ edge_count' = r.edge_count
                   /\ pc' = "build"
                   /\ UNCHANGED <<stderr, error, exit_status>>
    /\ UNCHANGED <<argv, stdout, input_svg, layout_json, out_paths, config, level,
                   block, environ, openai_installed, service, model, size,
                   max_labels, svg_text, labels, prompt, dirs, prompt_out, image_out,
                   requests, image_bytes>>

\* Lines 139-147.
BuildPrompt ==
    /\ pc = "build"
    /\ prompt' = build_prompt(svg_text, labels, node_count, edge_count,
                              config, level, block)
    /\ pc' = "mkdirs"
    /\ UNCHANGED <<argv, stdout, stderr, input_svg, layout_json, out_paths, config,
                   level, block, environ, openai_installed, service, model, size,
                   max_labels, svg_text, labels, node_count, edge_count, dirs,
                   prompt_out, image_out, requests, image_bytes, layout_reads, error,
                   exit_status>>

\* Lines 149-152: both output paths are resolved, then the parent of the
\* prompt path is made, then the parent of the image path.
MakeDirs ==
    /\ pc = "mkdirs"
    /\ IF OutputResolveRaises(out_paths.prompt_out)
          \/ OutputResolveRaises(out_paths.image_out)
       THEN /\ Raise("RuntimeError", stdout)
            /\ UNCHANGED dirs
       ELSE IF MkdirRaises(out_paths.prompt_out)
       THEN /\ Raise("OSError", stdout)
            /\ UNCHANGED dirs
       ELSE IF MkdirRaises(out_paths.image_out)
       THEN /\ Raise("OSError", stdout)
            /\ dirs' = dirs \cup {"prompt_out.parent"}
       ELSE /\ dirs' = dirs \cup {"prompt_out.parent", "image_out.parent"}
            /\ pc' = "write_prompt"
            /\ UNCHANGED <<stderr, error, exit_status>>
    /\ UNCHANGED <<argv, stdout, input_svg, layout_json, out_paths, config, level,
                   block, environ, openai_installed, service, model, size,
                   max_labels, svg_text, labels, node_count, edge_count, prompt,
                   prompt_out, image_out, requests, image_bytes, layout_reads>>

\* Mutant: the prompt is not written before generate_image is called.
WritePromptSkipped ==
    /\ pc = "write_prompt"
    /\ pc' = "generate"
    /\ UNCHANGED <<argv, stdout, stderr, input_svg, layout_json, out_paths, config,
                   level, block, environ, openai_installed, service, model, size,
                   max_labels, svg_text, labels, node_count, edge_count, prompt,
                   dirs, prompt_out, image_out, requests, image_bytes, layout_reads,
                   error, exit_status>>

\* Line 153.
WritePrompt ==
    /\ pc = "write_prompt"
    /\ IF FileWriteRaises(out_paths.prompt_out, prompt)
       THEN /\ Raise("OSError", stdout)
            /\ UNCHANGED prompt_out
       ELSE /\ prompt_out' = [writes |-> prompt_out.writes + 1, content |-> prompt]
            /\ pc' = "generate"
            /\ UNCHANGED <<stderr, error, exit_status>>
    /\ UNCHANGED <<argv, stdout, input_svg, layout_json, out_paths, config, level,
                   block, environ, openai_installed, service, model, size,
                   max_labels, svg_text, labels, node_count, edge_count, prompt,
                   dirs, image_out, requests, image_bytes, layout_reads>>

\* Line 155.
GenerateImage ==
    /\ pc = "generate"
    /\ LET r == generate_image(prompt, model, size,
                               openai_installed, environ, service)
       IN  /\ requests' = requests \o r.sent
           /\ IF r.raised # "none"
              THEN /\ Raise(r.raised, stdout)
                   /\ UNCHANGED image_bytes
              ELSE /\ image_bytes' = r.bytes
                   /\ pc' = "write_image"
                   /\ UNCHANGED <<stderr, error, exit_status>>
    /\ UNCHANGED <<argv, stdout, input_svg, layout_json, out_paths, config, level,
                   block, environ, openai_installed, service, model, size,
                   max_labels, svg_text, labels, node_count, edge_count, prompt,
                   dirs, prompt_out, image_out, layout_reads>>

\* Line 156.
WriteImage ==
    /\ pc = "write_image"
    /\ IF FileWriteRaises(out_paths.image_out, image_bytes)
       THEN /\ Raise("OSError", stdout)
            /\ UNCHANGED image_out
       ELSE /\ image_out' = [writes |-> image_out.writes + 1, content |-> image_bytes]
            /\ pc' = "report"
            /\ UNCHANGED <<stderr, error, exit_status>>
    /\ UNCHANGED <<argv, stdout, input_svg, layout_json, out_paths, config, level,
                   block, environ, openai_installed, service, model, size,
                   max_labels, svg_text, labels, node_count, edge_count, prompt,
                   dirs, prompt_out, requests, image_bytes, layout_reads>>

\* A line of the report: the label of 16 characters, the path, the line end.
ReportLine(tag, path_bytes) == [tag |-> tag, bytes |-> 16 + path_bytes + 1]

\* The lines printed at lines 158-162.
ReportLines ==
    <<ReportLine("Input SVG", argv.paths.input_svg)>>
    \o (IF IsFile(layout_json)
        THEN <<ReportLine("Layout JSON", argv.paths.layout_json)>> ELSE <<>>)
    \o <<ReportLine("Saved prompt", argv.paths.prompt_out),
         ReportLine("Saved image", argv.paths.image_out)>>

\* Lines 158-163.
Report ==
    /\ pc = "report"
    /\ LET r == PrintLines(stdout, ReportLines)
       IN  /\ stdout' = r.s
           /\ IF ~r.ok
              THEN Raise("OSError", r.s)
              ELSE /\ stderr' = AtExit(r.s, stderr)
                   /\ exit_status' = ExitStatus(EXIT_OK, r.s, stderr)
                   /\ pc' = "done"
                   /\ UNCHANGED error
    /\ UNCHANGED <<argv, input_svg, layout_json, out_paths, config, level, block,
                   environ, openai_installed, service, model, size, max_labels,
                   svg_text, labels, node_count, edge_count, prompt, dirs,
                   prompt_out, image_out, requests, image_bytes, layout_reads>>

Next ==
    \/ ParseArgs
    \/ CheckInput
    \/ ReadSvg
    \/ ExtractLabels
    \/ ReadLayout
    \/ BuildPrompt
    \/ MakeDirs
    \/ WritePrompt
    \/ GenerateImage
    \/ WriteImage
    \/ Report

Spec == Init /\ [][Next]_vars

-----------------------------------------------------------------------------
(* extract_svg_labels on its own, for every source text and every max_labels *)

PlainWorld ==
    /\ argv = [kind |-> "run", args |-> DefaultArguments, paths |-> ShortPaths]
    /\ stdout = StdOut("ok")
    /\ stderr = Stream("ok")
    /\ out_paths = [prompt_out |-> "ok", image_out |-> "ok"]
    /\ input_svg = [kind |-> "file", bytes |-> <<>>]
    /\ layout_json = [kind |-> "none", toks |-> <<>>]
    /\ environ = [present |-> FALSE, value |-> <<>>]
    /\ openai_installed = FALSE
    /\ service = [kind |-> "raise", b64 |-> <<>>]
    /\ model = DEFAULT_MODEL
    /\ size = DEFAULT_SIZE

InitLabels ==
    /\ pc = "extract"
    /\ svg_text \in SvgTexts(MaxFrags)
    /\ max_labels \in 0..MaxLabelsArg
    /\ config = <<>>
    /\ level = <<>>
    /\ block = <<>>
    /\ PlainWorld
    /\ Fresh

SpecLabels == InitLabels /\ [][ExtractLabels]_vars

-----------------------------------------------------------------------------
(* build_prompt on its own, for every combination of its arguments *)

PromptLabels == { <<"a">>, <<"b", "\n", "c">> }
PromptCounts == 0..MaxCount \cup {12}

\* A source of n characters whose characters differ around the excerpt limit.
LongText(n) ==
    [i \in 1..n |-> IF i < EXCERPT_LIMIT THEN "a"
                    ELSE IF i = EXCERPT_LIMIT THEN "y" ELSE "z"]

LongTexts == { LongText(EXCERPT_LIMIT + d) : d \in (0 - MaxSlack)..MaxSlack }

InitPrompt ==
    /\ pc = "build"
    /\ max_labels = DEFAULT_MAX_LABELS
    /\ PlainWorld
    /\ dirs = {}
    /\ prompt = <<>>
    /\ prompt_out = NoFileWritten
    /\ image_out = NoFileWritten
    /\ requests = <<>>
    /\ image_bytes = <<>>
    /\ layout_reads = 0
    /\ error = "none"
    /\ exit_status = -1
    /\ config \in Configs
    /\ \/ /\ svg_text \in { <<>>, ElemA }
          /\ labels \in SeqsUpTo(PromptLabels, MaxPromptLabels)
          /\ node_count \in PromptCounts
          /\ edge_count \in PromptCounts
          /\ level \in Levels
          /\ block \in Blocks
       \/ /\ svg_text \in LongTexts
          /\ labels \in { <<>>, << <<"a">> >> }
          /\ node_count = 0
          /\ edge_count = 0
          /\ level = <<>>
          /\ block = <<>>

SpecPrompt == InitPrompt /\ [][BuildPrompt]_vars

-----------------------------------------------------------------------------
(* Vocabulary of the claims *)

\* Position of the first element of seq equal to tok.
IndexOf(seq, tok) == CHOOSE i \in 1..Len(seq) : seq[i] = tok

\* The exceptions generate_image can end with.
GenerationErrors ==
    { MissingPackageError, KeyNotSetError, "ServiceError", "IndexError",
      "TypeError", "ValueError", "binascii.Error" }

\* generate_image has been called and has returned or raised.
GenerateCalled == prompt_out.writes >= 1 /\ pc # "generate"

\* s contains a markup tag: "<", at least one character other than ">", then ">".
HasTag(s) ==
    \E i \in 1..Len(s) : \E j \in (i + 2)..Len(s) :
        /\ s[i] = "<"
        /\ s[j] = ">"
        /\ \A k \in (i + 1)..(j - 1) : s[k] # ">"

\* The context lines the claim lists, each with the condition under which it appears.
ClaimedContext ==
    LET fields ==
          << [on |-> config # <<>>, line |-> <<"- CONFIG: ">> \o config],
             [on |-> level # <<>>, line |-> <<"- LEVEL: ">> \o level],
             [on |-> block # <<>>, line |-> <<"- BLOCK: ">> \o block],
             [on |-> node_count > 0,
              line |-> <<"- Approximate block count from layout JSON: ">>
                          \o IntToStr(node_count)],
             [on |-> edge_count > 0,
              line |-> <<"- Approximate edge count from layout JSON: ">>
                          \o IntToStr(edge_count)],
             [on |-> labels # <<>>, line |-> <<"- Labels discovered in source SVG:">>] >>
        shown == SelectSeq(fields, LAMBDA f : f.on)
    IN  [i \in 1..Len(shown) |-> shown[i].line]
        \o [i \in 1..Len(labels) |-> <<"  - ">> \o labels[i]]

\* Each line of ls followed by a line break.
Terminated(ls) == Concat([i \in 1..Len(ls) |-> ls[i] \o <<"\n">>])

\* The layout file holds text that json.loads accepts.
LayoutParses == layout_json.kind = "file" /\ json_loads(layout_json.toks).ok

\* Length of the field named key of the parsed layout if it is there and a list, else 0.
ClaimedCount(key) ==
    LET v == json_loads(layout_json.toks).val
        at == {i \in 1..Len(v.keys) : v.keys[i] = key}
        last == CHOOSE i \in at : \A k \in at : k <= i
    IN  IF at # {} /\ v.items[last].type = "list" THEN Len(v.items[last].items) ELSE 0

\* parse_args has returned the arguments and the run has gone past line 127.
Parsed == argv.kind = "run" /\ pc # "parse_args"

\* The layout step of the run, lines 134-137, is over: the input SVG is a file
\* that can be read, so nothing but the layout input can have ended the run.
LayoutStepDone ==
    /\ Parsed
    /\ input_svg.kind = "file"
    /\ pc \notin {"start", "read_svg", "extract", "layout"}

\* The input SVG path names no file.
InputNotAFile == input_svg.kind \in {"missing", "loop", "toolong"}

\* The run completed in full: prompt written, image generated and written.
CompletedInFull ==
    /\ prompt_out.writes = 1
    /\ Len(requests) = 1
    /\ image_out.writes = 1
    /\ image_out.content = image_bytes

\* The image service answered the one request with a payload that decodes.
RequestSucceeded ==
    /\ Len(requests) = 1
    /\ service.kind = "payload"
    /\ b64decode(service.b64).ok

-----------------------------------------------------------------------------
(* Claims *)

\* C1: in every run in which generate_image fails, the prompt file has been
\* written once with the assembled prompt and stays so, and the image file is
\* never written.
C1_PromptSurvivesGenerationFailure ==
    error \in GenerationErrors =>
        /\ prompt_out.writes = 1
        /\ prompt_out.content =
              build_prompt(svg_text, labels, node_count, edge_count, config, level, block)
        /\ image_out = NoFileWritten

C1_Witness ==
    /\ pc = "done"
    /\ error = "ServiceError"
    /\ prompt_out.writes = 1
    /\ Len(requests) = 1

\* C2: when the input SVG path names no file, the run ends at once with status
\* 2 and without any side effect: no directory, no prompt file, no image file,
\* no read of the layout file, no request.
C2_MissingInputNoSideEffect ==
    (Parsed /\ InputNotAFile /\ pc # "start") =>
        /\ pc = "done"
        /\ exit_status = EXIT_INPUT_NOT_FOUND
        /\ error = "none"
        /\ dirs = {}
        /\ prompt_out = NoFileWritten
        /\ image_out = NoFileWritten
        /\ layout_reads = 0
        /\ requests = <<>>

\* C3 as stated: whenever the credential is absent from the environment,
\* generate_image fails with the "OPENAI_API_KEY is not set" error and sends no
\* request, whatever the other preconditions are.
C3_AbsentKeyAlwaysKeyError ==
    (GenerateCalled /\ ~environ.present) =>
        /\ error = KeyNotSetError
        /\ requests = <<>>

\* C3 amended: whenever the credential is absent from the environment,
\* generate_image fails without sending a request and no image is written; the
\* error is "OPENAI_API_KEY is not set" when the openai package can be imported
\* and "Missing Python package 'openai'" when it cannot.
C3_AbsentKeyFailsBeforeRequest ==
    (GenerateCalled /\ ~environ.present) =>
        /\ requests = <<>>
        /\ image_out = NoFileWritten
        /\ error = IF openai_installed THEN KeyNotSetError ELSE MissingPackageError

C3_Witness ==
    /\ GenerateCalled
    /\ ~environ.present
    /\ openai_installed
    /\ error = KeyNotSetError
    /\ service.kind = "payload"

\* C4: the layout input never ends the run: whatever --layout-json names, a
\* run whose input SVG was read gets past the layout step, with a pair of
\* counts, to prompt assembly.
C4_LayoutNeverAborts ==
    LayoutStepDone =>
        /\ error \notin {"AttributeError", "OSError", "RuntimeError"}
              \/ prompt # <<>>
        /\ pc = "build" \/ prompt # <<>>

\* C5: extract_svg_labels returns at most max_labels entries, each non-empty
\* after trimming and free of markup tags, for every source text and every
\* max_labels.
C5_LabelsBoundedAndClean ==
    pc = "layout" =>
        /\ Len(labels) <= max_labels
        /\ \A i \in 1..Len(labels) :
              /\ Strip(labels[i]) # <<>>
              /\ ~HasTag(labels[i])

\* C6: in the prompt the "Context:" line is always there, and between it and
\* the blank line before "Style constraints:" stand exactly the CONFIG, LEVEL
\* and BLOCK lines of the non-empty fields, the node and edge count lines of
\* the positive counts, and the labels header with one line per label when
\* there are labels, in this order; nothing when all are empty or zero.
C6_ContextBodyExact ==
    pc = "mkdirs" =>
        LET c == IndexOf(prompt, "Context:")
            st == IndexOf(prompt, "Style constraints:")
        IN  /\ Len(SelectSeq(prompt, LAMBDA t : t = "Context:")) = 1
            /\ SubSeq(prompt, 1, c) = Join(PromptHead, "\n")
            /\ SubSeq(prompt, c + 1, st - 1)
                  = <<"\n">> \o Terminated(ClaimedContext) \o <<"\n">>

C6_Witness ==
    /\ pc = "mkdirs"
    /\ config # <<>>
    /\ level = <<>>
    /\ block # <<>>
    /\ node_count > 0
    /\ edge_count = 0
    /\ Len(labels) = 2
    /\ prompt # <<>>

\* C7 as stated: a run sends at most one request, the request carries the text
\* written to the prompt file, and the image file is written exactly once when
\* the request is answered with a payload that decodes, and never otherwise.
C7_OneRequestOneImage ==
    /\ Len(requests) <= 1
    /\ \A i \in 1..Len(requests) :
          /\ prompt_out.writes = 1
          /\ requests[i].prompt = prompt_out.content
    /\ image_out.writes <= 1
    /\ image_out.writes = 1 =>
          /\ RequestSucceeded
          /\ image_out.content = b64decode(service.b64).bytes
    /\ pc = "done" => (image_out.writes = 1 <=> RequestSucceeded)

\* C7 amended: a run sends at most one request, the request carries the text
\* written to the prompt file, and the image file is written exactly once when
\* the request is answered with a payload that decodes and the write to the
\* image path succeeds, and never otherwise.
C7_OneRequestImageIfWritable ==
    /\ Len(requests) <= 1
    /\ \A i \in 1..Len(requests) :
          /\ prompt_out.writes = 1
          /\ requests[i].prompt = prompt_out.content
    /\ image_out.writes <= 1
    /\ image_out.writes = 1 =>
          /\ RequestSucceeded
          /\ image_out.content = b64decode(service.b64).bytes
    /\ pc = "done" =>
          (image_out.writes = 1
             <=> /\ RequestSucceeded
                 /\ ~FileWriteRaises(out_paths.image_out,
                                     b64decode(service.b64).bytes))

C7_Witness ==
    /\ pc = "done"
    /\ RequestSucceeded
    /\ b64decode(service.b64).bytes = <<65, 66>>
    /\ out_paths.image_out = "is_dir"
    /\ error = "OSError"
    /\ prompt_out.writes = 1
    /\ image_out = NoFileWritten

\* C8: the exit status of a run, once parse_args has returned its arguments, is
\* 0 exactly when the run wrote the prompt, got the image and wrote it; an
\* input SVG path that names no file gives a non-zero status that is not the
\* status of a run ended by an exception, and a run ended by an exception
\* gives a status that is neither 0 nor the status of a missing input.
C8_ExitStatus ==
    (pc = "done" /\ Parsed) =>
        /\ exit_status = EXIT_OK <=> CompletedInFull
        /\ InputNotAFile => exit_status \notin {EXIT_OK, EXIT_EXCEPTION}
        /\ EXIT_INPUT_NOT_FOUND # EXIT_OK
        /\ error # "none" => exit_status \notin {EXIT_OK, EXIT_INPUT_NOT_FOUND}

\* C9: the text after the "Source SVG" header of the prompt is a prefix of the
\* source text, of length min(len(source), 18000), so never longer than 18000.
C9_ExcerptIsBoundedPrefix ==
    pc = "mkdirs" =>
        LET h == IndexOf(prompt, "Source SVG (for structure reference):")
            ex == SubSeq(prompt, h + 2, Len(prompt))
        IN  /\ prompt[h + 1] = "\n"
            /\ Len(ex) = Min(Len(svg_text), 18000)
            /\ Len(ex) <= 18000
            /\ ex = SubSeq(svg_text, 1, Len(ex))

C9_Witness ==
    /\ pc = "mkdirs"
    /\ Len(svg_text) > 18000
    /\ Len(prompt) > 18000

\* C10: when the layout file parses, read_layout_stats returns the length of
\* the "nodes" field if it is there and a list, else 0, and likewise and
\* independently for "edges".
C10_CountsOfParsedLayout ==
    (LayoutStepDone /\ LayoutParses) =>
        /\ error # "AttributeError"
        /\ node_count = ClaimedCount("nodes")
        /\ edge_count = ClaimedCount("edges")

=============================================================================
